---- MODULE Spec2Model ----
(***************************************************************************)
(* The mind-map store of src/src/stores/mindmapStore.ts: the node arena,   *)
(* the tree mutations, the balanced layout and the snapshot history; the   *)
(* deferred layout commits (timers), the drag gesture of the canvas        *)
(* (draggedNodeId) and the auto-save of the editor page (loading,          *)
(* saveTimers, inFlight, persisted).                                       *)
(*                                                                         *)
(* Node ids (nanoid strings in the source) are the integers 1..MaxNodes,   *)
(* handed out in increasing order and never reused; NULL (0) is null.      *)
(* x coordinates are held in fifths of a pixel (XScale), because a node's  *)
(* width is 0.6 * 14 * title.length + 8 pixels; y coordinates are pixels.  *)
(***************************************************************************)
EXTENDS Integers, Sequences, FiniteSets, TLC

VARIABLES nodes, rootNodeId, selectedNodeId, editingNodeId, history,
          canvasPosition, canvasScale, nextId, ret, lastOp, mark, nops,
          timers, draggedNodeId, loading, saveTimers, inFlight, persisted

vars == <<nops, nodes, rootNodeId, selectedNodeId, editingNodeId, history,
          canvasPosition, canvasScale, nextId, ret, lastOp, mark,
          timers, draggedNodeId, loading, saveTimers, inFlight, persisted>>

(* ------------------------------ bounds -------------------------------- *)
\* ids that nanoid can hand out in one run (the root included)
MaxNodes == 4
\* store operations in one run
MaxOps == 4
\* store operations in one run of the tree mutations alone
MaxTreeOps == 5
\* store operations in one run of the tree mutations and updateNode
MaxEditOps == 3
\* store operations in one run with page loads
MaxLoadOps == 4
\* layouts and navigation steps on one input tree
MaxNavOps == 2
\* updates and searches in one run
MaxSearchOps == 3
\* context-menu actions in one run
MaxMenuOps == 6
\* steps in one run with deferred layout commits
MaxTimerOps == 5
\* layout commits that can be pending at once
MaxTimers == 2
\* steps in one run of drag gestures
MaxDragOps == 6
\* steps in one run of the editor page with auto-save
MaxSaveOps == 6
\* auto-save writes that can be in flight at once
MaxInFlight == 2
\* nodes of an input tree of the layout function
MaxLayoutNodes == 3
\* applications of the layout function to one input tree
LayoutRuns == 2

(* ----------------------------- constants ------------------------------ *)
NULL == 0
XScale == 5
VERTICAL_SPACING == 14
MIN_HORIZONTAL_SPACING == 50
NODE_HEIGHT == 32
ROOT_X == 400
ROOT_Y == 300
\* canvasScale, in tenths: the initial value and the clamp of setCanvasScale
INITIAL_SCALE == 13
MIN_SCALE == 1
MAX_SCALE == 30

Ids == 1..MaxNodes
\* DEFAULT_COLORS of types/mindmap.ts has no key "black": the colour of a new
\* node is the value undefined, held under the key "color".
UNDEFINED == "undefined"
\* the key is not in the object at all
ABSENT == "absent"
DEFAULT_COLORS_black == UNDEFINED
DEFAULT_COLORS_blue == "#3B82F6"

Max(a, b) == IF a >= b THEN a ELSE b
Min(a, b) == IF a <= b THEN a ELSE b
Last(s) == s[Len(s)]
Front(s) == SubSeq(s, 1, Len(s) - 1)

(* ------------------------------ layout -------------------------------- *)
\* getNodeWidth, in fifths of a pixel: 5 * max(32, min(320, 8.4 * len + 8))
getNodeWidth(node) ==
    Max(32 * XScale, Min(320 * XScale, 42 * Len(node.title) + 8 * XScale))

calculateHorizontalSpacing(parentNode, childNode) == MIN_HORIZONTAL_SPACING * XScale

\* node.childrenIds.map(id => updatedNodes[id]).filter(c => c && !c.isCollapsed)
LayoutChildren(ns, id) ==
    SelectSeq(ns[id].childrenIds,
              LAMBDA c : c \in DOMAIN ns /\ ~ns[c].isCollapsed)

RECURSIVE calculateSubtreeHeight(_, _)
RECURSIVE SumSubtreeHeights(_, _, _)
SumSubtreeHeights(ns, children, i) ==
    IF i > Len(children) THEN 0
    ELSE calculateSubtreeHeight(ns, children[i]) + SumSubtreeHeights(ns, children, i + 1)

calculateSubtreeHeight(ns, nodeId) ==
    IF nodeId \notin DOMAIN ns THEN 0
    ELSE LET children == LayoutChildren(ns, nodeId) IN
         IF Len(children) = 0 THEN NODE_HEIGHT
         ELSE Max(SumSubtreeHeights(ns, children, 1)
                    + (Len(children) - 1) * VERTICAL_SPACING,
                  NODE_HEIGHT)

\* the y of the top of the children block of a node placed at parentY
BlockTop(parentY, totalHeight) == parentY - totalHeight \div 2

RECURSIVE layoutNode(_, _, _, _, _)
RECURSIVE LayoutEach(_, _, _, _, _, _)
\* children.forEach(...) of layoutNode, from the i-th child on
LayoutEach(ns, children, i, childX, currentY, level) ==
    IF i > Len(children) THEN ns
    ELSE LET childHeight == calculateSubtreeHeight(ns, children[i])
             childY == currentY + childHeight \div 2
         IN LayoutEach(layoutNode(ns, children[i], childX, childY, level),
                       children, i + 1, childX,
                       currentY + childHeight + VERTICAL_SPACING, level)

layoutNode(ns, nodeId, parentX, parentY, level) ==
    IF nodeId \notin DOMAIN ns THEN ns
    ELSE LET node == ns[nodeId]
             children == LayoutChildren(ns, nodeId)
             placed == [ns EXCEPT ![nodeId].position = [x |-> parentX, y |-> parentY],
                                  ![nodeId].level = level]
         IN IF Len(children) = 0 THEN placed
            ELSE LET totalHeight == SumSubtreeHeights(ns, children, 1)
                                      + (Len(children) - 1) * VERTICAL_SPACING
                     childX == parentX + getNodeWidth(node)
                                 + calculateHorizontalSpacing(node, node)
                 IN LayoutEach(placed, children, 1, childX,
                               BlockTop(parentY, totalHeight), level + 1)

\* a bug: the root's y is read as the top of its box and moved to the centre
RootAnchorCentred(rootNode) ==
    [x |-> rootNode.position.x, y |-> rootNode.position.y + NODE_HEIGHT \div 2]

\* where the layout starts: the root keeps the position it has
RootAnchor(rootNode) == rootNode.position

calculateBalancedLayout(ns, rootId) ==
    IF rootId \in DOMAIN ns
    THEN layoutNode(ns, rootId, RootAnchor(ns[rootId]).x, RootAnchor(ns[rootId]).y, 0)
    ELSE ns

rebalanceTree(ns, rootId) == calculateBalancedLayout(ns, rootId)

(* ------------------------------ history ------------------------------- *)
\* JSON.stringify of one node: a key whose value is undefined is left out
StringifyNode(node) ==
    IF "color" \in DOMAIN node
    THEN [node EXCEPT !.color = IF @ = UNDEFINED THEN ABSENT ELSE @]
    ELSE node

\* JSON.stringify({nodes, rootNodeId}); a snapshot is held as the value its
\* text parses to
Stringify(ns, rootId) ==
    [nodes |-> [i \in DOMAIN ns |-> StringifyNode(ns[i])], rootNodeId |-> rootId]

\* JSON.parse of a snapshot
Parse(snapshot) == snapshot

\* a bug: the snapshots that were undone stay redoable
saveToHistoryKeepsFuture(ns, rootId, h) ==
    [past |-> Append(h.past, h.present),
     present |-> Stringify(ns, rootId),
     future |-> h.future]

\* history after saveToHistory() run on the store (ns, rootId, h)
saveToHistory(ns, rootId, h) ==
    [past |-> Append(h.past, h.present),
     present |-> Stringify(ns, rootId),
     future |-> <<>>]

(* ------------------------------- Init --------------------------------- *)
rootNode ==
    [id |-> 1, title |-> "Main Topic",
     position |-> [x |-> ROOT_X * XScale, y |-> ROOT_Y],
     color |-> DEFAULT_COLORS_black, isCompleted |-> FALSE, isCollapsed |-> FALSE,
     parentId |-> NULL, childrenIds |-> <<>>, level |-> 0,
     isSelected |-> TRUE, isEditing |-> FALSE]

RetUndefined == [kind |-> "undefined", value |-> NULL]
RetId(id) == [kind |-> "id", value |-> id]
RetThrows == [kind |-> "throws", value |-> NULL]

NoMark == [phase |-> "none", nodes |-> <<>>, rootNodeId |-> NULL]

\* the nodes column of a page nothing was saved to
NoData == [nodes |-> <<>>, rootNodeId |-> NULL]

\* no timer is pending, no node is dragged; the editor page has not finished
\* loading (useState(true)), nothing is being saved
InitOutside ==
    /\ timers = <<>>
    /\ draggedNodeId = NULL
    /\ loading = TRUE
    /\ saveTimers = <<>>
    /\ inFlight = <<>>
    /\ persisted = NoData

Init ==
    /\ nodes = (1 :> rootNode)
    /\ rootNodeId = 1
    /\ selectedNodeId = 1
    /\ editingNodeId = NULL
    /\ history = [past |-> <<>>, present |-> Stringify(1 :> rootNode, 1), future |-> <<>>]
    /\ canvasPosition = [x |-> 0, y |-> 0]
    /\ canvasScale = INITIAL_SCALE
    /\ nextId = 2
    /\ ret = RetUndefined
    /\ lastOp = [name |-> "init", args |-> <<>>]
    /\ mark = NoMark
    /\ nops = 0
    /\ InitOutside

\* bookkeeping of every step: what was called
Log(name, args) ==
    /\ lastOp' = [name |-> name, args |-> args]
    /\ nops' = nops + 1

\* a bug: the cleanup of the auto-save effect leaves the timer armed
ClearTimeoutKeeps(armed) == armed

\* the cleanup of the auto-save effect: clearTimeout(timeoutId) of the timer
\* the previous run of the effect armed, the last one armed
ClearTimeout(armed) == IF armed = <<>> THEN <<>> ELSE Front(armed)

\* setTimeout(saveData, 2000): saveData holds the nodes and rootNodeId of the
\* render whose effect armed it
ArmSave(armed, ns, rootId) == Append(armed, [nodes |-> ns, rootNodeId |-> rootId])

\* the auto-save effect of the editor page after a step: when one of its
\* dependencies has changed, the cleanup of the previous run and then the new
\* run, which returns at once while the page is loading
AutoSaveEffect(changed) ==
    saveTimers' = IF ~changed THEN saveTimers
                  ELSE IF loading' THEN ClearTimeout(saveTimers)
                  ELSE ArmSave(ClearTimeout(saveTimers), nodes', rootNodeId')

\* a call of a store operation by the user interface: the effect sees the
\* nodes and rootNodeId the call has set
Logged(name, args) ==
    /\ Log(name, args)
    /\ UNCHANGED <<timers, draggedNodeId, loading, inFlight, persisted>>
    /\ AutoSaveEffect(<<nodes', rootNodeId'>> # <<nodes, rootNodeId>>)

\* a call of an operation whose set() does not name the canvas fields
Called(name, args) ==
    /\ Logged(name, args)
    /\ UNCHANGED <<canvasPosition, canvasScale>>

\* a bug: the early return is reached after the snapshot is taken
EarlyReturnSaves ==
    /\ history' = saveToHistory(nodes, rootNodeId, history)
    /\ ret' = RetUndefined
    /\ mark' = NoMark
    /\ UNCHANGED <<nodes, rootNodeId, selectedNodeId, editingNodeId, nextId>>

\* `return;` before anything is set: the store is as it was
EarlyReturn ==
    /\ ret' = RetUndefined
    /\ mark' = NoMark
    /\ UNCHANGED <<nodes, rootNodeId, selectedNodeId, editingNodeId, history, nextId>>

\* a TypeError thrown before or inside set(): nothing is set
Throws ==
    /\ ret' = RetThrows
    /\ mark' = NoMark
    /\ UNCHANGED <<nodes, rootNodeId, selectedNodeId, editingNodeId, history, nextId>>

\* the mark after a mutation M: the store as M left it
MarkMutation == mark' = [phase |-> "M", nodes |-> nodes', rootNodeId |-> rootNodeId']

(* ----------------------------- createNode ----------------------------- *)
\* the node record createNode builds (lines 176-211)
NewNode(newId, parentId, isSibling) ==
    LET parentNode == nodes[parentId]
        asSibling == parentId # NULL /\ isSibling /\ parentNode.parentId # NULL
        actualParentId == IF asSibling THEN parentNode.parentId ELSE parentId
        level == IF parentId = NULL THEN 0
                 ELSE IF asSibling THEN nodes[parentNode.parentId].level + 1
                 ELSE parentNode.level + 1
        position ==
            IF parentId = NULL THEN [x |-> ROOT_X * XScale, y |-> ROOT_Y]
            ELSE IF asSibling
                 THEN [x |-> parentNode.position.x, y |-> parentNode.position.y + 80]
                 ELSE [x |-> parentNode.position.x + 250 * XScale,
                       y |-> parentNode.position.y + Len(parentNode.childrenIds) * 80]
    IN [id |-> newId, title |-> "New Node", position |-> position,
        color |-> DEFAULT_COLORS_black, isCompleted |-> FALSE, isCollapsed |-> FALSE,
        parentId |-> actualParentId, childrenIds |-> <<>>, level |-> level,
        isSelected |-> FALSE, isEditing |-> FALSE]

\* a bug: the new id is put in front of the parent's children
PrependChild(childrenIds, newId) == <<newId>> \o childrenIds

\* [...parent.childrenIds, newId]
AppendChild(childrenIds, newId) == Append(childrenIds, newId)

\* the nodes map the set() callback of createNode returns (lines 213-227)
CreateNodeNodes(newNode) ==
    LET added == (newNode.id :> newNode) @@ nodes
        updatedNodes ==
            IF newNode.parentId # NULL
            THEN [added EXCEPT
                    ![newNode.parentId].childrenIds = AppendChild(@, newNode.id)]
            ELSE added
    IN rebalanceTree(updatedNodes, rootNodeId)

\* reading parentNode.parentId / .level / actualParent.level of a missing node
\* throws a TypeError before anything is set
CreateNodeThrows(parentId, isSibling) ==
    /\ parentId # NULL
    /\ \/ parentId \notin DOMAIN nodes
       \/ /\ isSibling
          /\ nodes[parentId].parentId # NULL
          /\ nodes[parentId].parentId \notin DOMAIN nodes

createNode(parentId, isSibling) ==
    /\ nextId <= MaxNodes
    /\ IF CreateNodeThrows(parentId, isSibling)
       THEN Throws
       ELSE LET newNode == NewNode(nextId, parentId, isSibling) IN
            /\ nodes' = CreateNodeNodes(newNode)
            /\ selectedNodeId' = nextId
            /\ editingNodeId' = nextId
            /\ history' = saveToHistory(nodes', rootNodeId, history)
            /\ nextId' = nextId + 1
            /\ ret' = RetId(nextId)
            /\ UNCHANGED rootNodeId
            /\ MarkMutation
    /\ Called("createNode", <<parentId, isSibling>>)

(* ----------------------------- deleteNode ----------------------------- *)
Without(seq, id) == SelectSeq(seq, LAMBDA c : c # id)

Remove(ns, id) == [i \in DOMAIN ns \ {id} |-> ns[i]]

\* a bug: only the node itself is taken out of the map
deleteOnlyNode(ns, id) == Remove(ns, id)

RECURSIVE deleteRecursively(_, _)
RECURSIVE DeleteEach(_, _, _)
\* nodeToDelete.childrenIds.forEach(deleteRecursively), from the i-th child on
DeleteEach(ns, children, i) ==
    IF i > Len(children) THEN ns
    ELSE DeleteEach(deleteRecursively(ns, children[i]), children, i + 1)

deleteRecursively(ns, id) ==
    IF id \notin DOMAIN ns THEN ns
    ELSE Remove(DeleteEach(ns, ns[id].childrenIds, 1), id)

\* a bug: the root is not protected
DeleteNodeRejectedMissing(nodeId) == nodeId \notin DOMAIN nodes

\* the early return of deleteNode
DeleteNodeRejected(nodeId) == nodeId \notin DOMAIN nodes \/ nodeId = rootNodeId

\* parent.childrenIds of a parent that is not stored throws inside set()
DetachThrows(nodeId) ==
    nodes[nodeId].parentId # NULL /\ nodes[nodeId].parentId \notin DOMAIN nodes

\* a bug: the old parent keeps the node in its childrenIds
DetachKeeps(ns, nodeId) == ns

\* updatedNodes after the node is taken out of its parent's childrenIds
Detach(ns, nodeId) ==
    IF ns[nodeId].parentId # NULL
    THEN [ns EXCEPT ![ns[nodeId].parentId].childrenIds = Without(@, nodeId)]
    ELSE ns

\* node.parentId || prevState.rootNodeId
SelectionAfterDelete(node) ==
    IF node.parentId # NULL THEN node.parentId ELSE rootNodeId

\* the nodes map the set() callback of deleteNode returns
DeleteNodeNodes(nodeId) ==
    rebalanceTree(deleteRecursively(Detach(nodes, nodeId), nodeId), rootNodeId)

deleteNode(nodeId) ==
    /\ IF DeleteNodeRejected(nodeId)
       THEN EarlyReturn
       ELSE IF DetachThrows(nodeId)
       THEN Throws
       ELSE /\ nodes' = DeleteNodeNodes(nodeId)
            /\ selectedNodeId' = SelectionAfterDelete(nodes[nodeId])
            /\ editingNodeId' = NULL
            /\ history' = saveToHistory(nodes', rootNodeId, history)
            /\ ret' = RetUndefined
            /\ UNCHANGED <<rootNodeId, nextId>>
            /\ MarkMutation
    /\ Called("deleteNode", <<nodeId>>)

(* --------------------------- reassignParent --------------------------- *)
RECURSIVE isDescendant(_, _, _)
\* is ancestorId a proper ancestor of checkNodeId, by the parentId chain
isDescendant(ns, checkNodeId, ancestorId) ==
    IF checkNodeId \notin DOMAIN ns \/ ns[checkNodeId].parentId = NULL THEN FALSE
    ELSE IF ns[checkNodeId].parentId = ancestorId THEN TRUE
    ELSE isDescendant(ns, ns[checkNodeId].parentId, ancestorId)

\* the first early return of reassignParent (line 373)
ReassignMissing(nodeId, newParentId) ==
    \/ nodeId \notin DOMAIN nodes
    \/ newParentId \notin DOMAIN nodes
    \/ nodeId = newParentId

\* both early returns of reassignParent (lines 373 and 382)
ReassignRejected(nodeId, newParentId) ==
    \/ ReassignMissing(nodeId, newParentId)
    \/ isDescendant(nodes, newParentId, nodeId)

RECURSIVE updateDescendantLevels(_, _)
RECURSIVE UpdateEach(_, _, _, _)
\* parentNode.childrenIds.forEach(...), from the i-th child on; parentNode is
\* the record read before the loop
UpdateEach(ns, parentLevel, children, i) ==
    IF i > Len(children) THEN ns
    ELSE UpdateEach(
             updateDescendantLevels(
                 [ns EXCEPT ![children[i]].level = parentLevel + 1], children[i]),
             parentLevel, children, i + 1)

updateDescendantLevels(ns, parentNodeId) ==
    UpdateEach(ns, ns[parentNodeId].level, ns[parentNodeId].childrenIds, 1)

\* the level the moved node gets (line 403)
MovedLevel(newParent) == newParent.level + 1

\* updatedNodes with nodeId appended to the new parent's childrenIds
Attach(ns, nodeId, newParentId) ==
    [ns EXCEPT ![newParentId].childrenIds = Append(@, nodeId)]

\* the nodes map the set() callback of reassignParent returns
ReassignParentNodes(nodeId, newParentId) ==
    LET attached == Attach(Detach(nodes, nodeId), nodeId, newParentId)
        moved == [attached EXCEPT ![nodeId].parentId = newParentId,
                                  ![nodeId].level = MovedLevel(nodes[newParentId])]
    IN rebalanceTree(updateDescendantLevels(moved, nodeId), rootNodeId)

\* what a completed reassignParent returns: it is declared void (line 90) and
\* falls off its end (line 425)
ReassignParentReturn == RetUndefined

reassignParent(nodeId, newParentId) ==
    /\ IF ReassignRejected(nodeId, newParentId)
       THEN EarlyReturn
       ELSE IF DetachThrows(nodeId)
       THEN Throws
       ELSE /\ nodes' = ReassignParentNodes(nodeId, newParentId)
            /\ history' = saveToHistory(nodes', rootNodeId, history)
            /\ ret' = ReassignParentReturn
            /\ UNCHANGED <<rootNodeId, selectedNodeId, editingNodeId, nextId>>
            /\ MarkMutation
    /\ Called("reassignParent", <<nodeId, newParentId>>)

(* --------------------------- property edits --------------------------- *)
\* the partial records updateNode is called with
Updates == {[title |-> "Plan"], [title |-> ""], [isCompleted |-> TRUE]}

Colors == {DEFAULT_COLORS_blue}

\* partial records that name structural fields: Partial<MindMapNode> allows them
StructuralUpdates == {[level |-> 7], [childrenIds |-> <<>>]}

\* an id no node was ever created with
MissingId == MaxNodes + 1

\* state.nodes[nodeId]: the record, or undefined, which spreads to no fields
Lookup(ns, nodeId) == IF nodeId \in DOMAIN ns THEN ns[nodeId] ELSE <<>>

\* { ...state.nodes[nodeId], ...updates }
Merge(node, updates) == updates @@ node

\* what a property edit leaves alone
EditFrame ==
    /\ ret' = RetUndefined
    /\ UNCHANGED <<rootNodeId, selectedNodeId, editingNodeId, history, nextId>>
    /\ MarkMutation

\* { ...state.nodes, [nodeId]: { ...state.nodes[nodeId], ...updates } }
UpdateNodeNodes(nodeId, updates) ==
    (nodeId :> Merge(Lookup(nodes, nodeId), updates)) @@ nodes

updateNode(nodeId, updates) ==
    /\ nodes' = UpdateNodeNodes(nodeId, updates)
    /\ EditFrame
    /\ Called("updateNode", <<nodeId>>)

toggleNodeCollapse(nodeId) ==
    /\ nodeId \in DOMAIN nodes
    /\ nodes' = [nodes EXCEPT ![nodeId].isCollapsed = ~@]
    /\ EditFrame
    /\ Called("toggleNodeCollapse", <<nodeId>>)

toggleNodeCompletion(nodeId) ==
    /\ nodeId \in DOMAIN nodes
    /\ nodes' = [nodes EXCEPT ![nodeId].isCompleted = ~@]
    /\ EditFrame
    /\ Called("toggleNodeCompletion", <<nodeId>>)

changeNodeColor(nodeId, color) ==
    /\ nodeId \in DOMAIN nodes
    /\ nodes' = [nodes EXCEPT ![nodeId].color = color]
    /\ EditFrame
    /\ Called("changeNodeColor", <<nodeId>>)

(* ----------------------------- undo, redo ----------------------------- *)
\* a bug: undo forgets the snapshots that were already undone
UndoHistoryDropsFuture(h) ==
    [past |-> Front(h.past), present |-> Last(h.past), future |-> <<h.present>>]

\* the history undo() installs
UndoHistory(h) ==
    [past |-> Front(h.past), present |-> Last(h.past),
     future |-> <<h.present>> \o h.future]

\* the history redo() installs
RedoHistory(h) ==
    [past |-> Append(h.past, h.present), present |-> Head(h.future),
     future |-> Tail(h.future)]

\* set({nodes: data.nodes, rootNodeId: data.rootNodeId, selectedNodeId: null,
\*      editingNodeId: null, history}) of undo and of redo
Restore(snapshot, h) ==
    /\ nodes' = Parse(snapshot).nodes
    /\ rootNodeId' = Parse(snapshot).rootNodeId
    /\ selectedNodeId' = NULL
    /\ editingNodeId' = NULL
    /\ history' = h

undo ==
    /\ IF Len(history.past) = 0
       THEN UNCHANGED <<nodes, rootNodeId, selectedNodeId, editingNodeId, history>>
       ELSE Restore(Last(history.past), UndoHistory(history))
    /\ ret' = RetUndefined
    /\ mark' = IF mark.phase = "M" THEN [mark EXCEPT !.phase = "undo"] ELSE NoMark
    /\ UNCHANGED nextId
    /\ Called("undo", <<>>)

redo ==
    /\ IF Len(history.future) = 0
       THEN UNCHANGED <<nodes, rootNodeId, selectedNodeId, editingNodeId, history>>
       ELSE Restore(Head(history.future), RedoHistory(history))
    /\ ret' = RetUndefined
    /\ mark' = IF mark.phase = "undo" THEN [mark EXCEPT !.phase = "redo"] ELSE NoMark
    /\ UNCHANGED nextId
    /\ Called("redo", <<>>)

(* ------------------------------- canvas ------------------------------- *)
\* the pan offsets and the scales (in tenths) the canvas operations are called with
CanvasPositions == {[x |-> -120, y |-> 45]}

CanvasScales == {5, 45}

\* what a canvas operation leaves alone
CanvasFrame ==
    /\ ret' = RetUndefined
    /\ mark' = NoMark
    /\ UNCHANGED <<nodes, rootNodeId, selectedNodeId, editingNodeId, history, nextId>>

setCanvasPosition(position) ==
    /\ canvasPosition' = position
    /\ UNCHANGED canvasScale
    /\ CanvasFrame
    /\ Logged("setCanvasPosition", <<>>)

\* Math.max(0.1, Math.min(3, scale))
setCanvasScale(scale) ==
    /\ canvasScale' = Max(MIN_SCALE, Min(MAX_SCALE, scale))
    /\ UNCHANGED canvasPosition
    /\ CanvasFrame
    /\ Logged("setCanvasScale", <<>>)

(* ------------------------ selection and editing ----------------------- *)
selectNode(nodeId) ==
    /\ nodes' = [i \in DOMAIN nodes |-> [nodes[i] EXCEPT !.isSelected = (i = nodeId)]]
    /\ selectedNodeId' = nodeId
    /\ editingNodeId' = NULL
    /\ ret' = RetUndefined
    /\ mark' = NoMark
    /\ UNCHANGED <<rootNodeId, history, nextId>>
    /\ Called("selectNode", <<nodeId>>)

startEditing(nodeId) ==
    /\ editingNodeId' = nodeId
    /\ ret' = RetUndefined
    /\ mark' = NoMark
    /\ UNCHANGED <<nodes, rootNodeId, selectedNodeId, history, nextId>>
    /\ Called("startEditing", <<nodeId>>)

stopEditing ==
    /\ editingNodeId' = NULL
    /\ ret' = RetUndefined
    /\ mark' = NoMark
    /\ UNCHANGED <<nodes, rootNodeId, selectedNodeId, history, nextId>>
    /\ Called("stopEditing", <<>>)

(* ------------------------------- search ------------------------------- *)
\* in the runs with searchNodes a text (title, details, query) is the sequence
\* of its characters
SearchTexts == {<<>>, <<"a", "b">>, <<"A", "B">>, <<"b", "a">>}

Queries == {<<>>, <<"a">>, <<"B">>, <<"a", "B">>, <<"b", "b">>}

\* the partial records updateNode is called with in those runs
SearchUpdates == {[title |-> <<"B", "a">>], [details |-> <<"a", "B">>],
                  [isCompleted |-> TRUE]}

\* String.prototype.toLowerCase, on the letters used
LowerChar(c) == CASE c = "A" -> "a" [] c = "B" -> "b" [] OTHER -> c

toLowerCase(text) == [k \in 1..Len(text) |-> LowerChar(text[k])]

\* String.prototype.includes
includes(text, query) ==
    \E k \in 0..(Len(text) - Len(query)) : SubSeq(text, k + 1, k + Len(query)) = query

\* reading .title of a record that has none gives undefined, and
\* undefined.toLowerCase() throws
SearchThrows == \E i \in DOMAIN nodes : "title" \notin DOMAIN nodes[i]

\* the filter callback of searchNodes
SearchMatches(node, lowerQuery) ==
    \/ includes(toLowerCase(node.title), lowerQuery)
    \/ /\ "details" \in DOMAIN node
       /\ includes(toLowerCase(node.details), lowerQuery)

RetNodes(ids) == [kind |-> "nodes", value |-> ids]

\* the ids of the nodes searchNodes returns; their order in the array is not
\* modelled
searchNodes(query) ==
    /\ ret' = IF SearchThrows THEN RetThrows
              ELSE RetNodes({i \in DOMAIN nodes :
                                SearchMatches(nodes[i], toLowerCase(query))})
    /\ mark' = NoMark
    /\ UNCHANGED <<nodes, rootNodeId, selectedNodeId, editingNodeId, history, nextId>>
    /\ Called("searchNodes", <<query>>)

(* ----------------------------- navigation ----------------------------- *)
Directions == {"ArrowUp", "ArrowDown", "ArrowLeft", "ArrowRight"}

RECURSIVE traverse(_, _, _)
RECURSIVE TraverseEach(_, _, _, _)
\* node.childrenIds.forEach(traverse), from the i-th child on
TraverseEach(ns, children, i, visible) ==
    IF i > Len(children) THEN visible
    ELSE TraverseEach(ns, children, i + 1, traverse(ns, children[i], visible))

\* traverse of getVisibleNodes: visible is the list pushed so far, which is
\* also the visited set
traverse(ns, nodeId, visible) ==
    IF nodeId \in {visible[k] : k \in 1..Len(visible)} \/ nodeId \notin DOMAIN ns
    THEN visible
    ELSE IF ns[nodeId].isCollapsed THEN Append(visible, nodeId)
    ELSE TraverseEach(ns, ns[nodeId].childrenIds, 1, Append(visible, nodeId))

\* the ids of the nodes getVisibleNodes returns, in its order
getVisibleNodes(ns, rootId) == traverse(ns, rootId, <<>>)

\* visibleNodes.some(vn => vn.id === id)
IsVisible(visibleNodes, id) == \E k \in 1..Len(visibleNodes) : visibleNodes[k] = id

\* dy of a candidate: the two NODE_HEIGHT / 2 cancel
VerticalOffset(ns, id, currentNodeId) == ns[id].position.y - ns[currentNodeId].position.y

\* (direction === 'ArrowUp' && dy < 0) || (direction === 'ArrowDown' && dy > 0)
InDirection(dy, direction) ==
    \/ direction = "ArrowUp" /\ dy < 0
    \/ direction = "ArrowDown" /\ dy > 0

Abs(n) == IF n < 0 THEN -n ELSE n

RECURSIVE Nearest(_, _, _, _, _, _, _)
\* the for loops over the candidates, from the i-th on: best is kept unless a
\* candidate in the direction is strictly nearer
Nearest(ns, candidates, i, currentNodeId, direction, best, bestDist) ==
    IF i > Len(candidates) THEN best
    ELSE LET dy == VerticalOffset(ns, candidates[i], currentNodeId)
             better == /\ InDirection(dy, direction)
                       /\ (best = NULL \/ Abs(dy) < bestDist)
         IN Nearest(ns, candidates, i + 1, currentNodeId, direction,
                    IF better THEN candidates[i] ELSE best,
                    IF better THEN Abs(dy) ELSE bestDist)

\* the visible siblings of the current node, in childrenIds order
VisibleSiblings(ns, visibleNodes, currentNodeId) ==
    LET parentId == ns[currentNodeId].parentId IN
    IF parentId # NULL /\ parentId \in DOMAIN ns
    THEN SelectSeq(ns[parentId].childrenIds,
                   LAMBDA id : /\ id \in DOMAIN ns
                               /\ id # currentNodeId
                               /\ IsVisible(visibleNodes, id))
    ELSE <<>>

\* a bug: the nearest visible node wins over a sibling
NearestAnywhere(bestSibling, bestNode) == bestNode

\* if (bestSibling) { selectNode(bestSibling.id); return; } ... bestNode
SiblingFirst(bestSibling, bestNode) ==
    IF bestSibling # NULL THEN bestSibling ELSE bestNode

\* a bug: the last visible child is taken
LastVisibleChild(visibleChildren) == visibleChildren[Len(visibleChildren)]

\* .find(...) returns the first child that passes
FirstVisibleChild(visibleChildren) == Head(visibleChildren)

\* the id navigateToNode passes to selectNode, or NULL when it selects nothing
NavigationTarget(ns, rootId, currentNodeId, direction) ==
    IF currentNodeId \notin DOMAIN ns THEN NULL
    ELSE LET visibleNodes == getVisibleNodes(ns, rootId) IN
         IF direction \in {"ArrowUp", "ArrowDown"}
         THEN LET bestSibling ==
                      Nearest(ns, VisibleSiblings(ns, visibleNodes, currentNodeId), 1,
                              currentNodeId, direction, NULL, 0)
                  bestNode ==
                      Nearest(ns, SelectSeq(visibleNodes, LAMBDA id : id # currentNodeId),
                              1, currentNodeId, direction, NULL, 0)
              IN SiblingFirst(bestSibling, bestNode)
         ELSE IF direction = "ArrowRight"
         THEN LET visibleChildren ==
                      SelectSeq(ns[currentNodeId].childrenIds,
                                LAMBDA id : id \in DOMAIN ns /\ IsVisible(visibleNodes, id))
              IN IF visibleChildren # <<>> THEN FirstVisibleChild(visibleChildren) ELSE NULL
         ELSE IF /\ ns[currentNodeId].parentId # NULL
                 /\ ns[currentNodeId].parentId \in DOMAIN ns
              THEN ns[currentNodeId].parentId
              ELSE NULL

\* the set() of selectNode
SelectNodeNodes(ns, nodeId) ==
    [i \in DOMAIN ns |-> [ns[i] EXCEPT !.isSelected = (i = nodeId)]]

navigateToNode(currentNodeId, direction) ==
    /\ LET target == NavigationTarget(nodes, rootNodeId, currentNodeId, direction) IN
       IF target # NULL
       THEN /\ nodes' = SelectNodeNodes(nodes, target)
            /\ selectedNodeId' = target
            /\ editingNodeId' = NULL
       ELSE UNCHANGED <<nodes, selectedNodeId, editingNodeId>>
    /\ ret' = RetUndefined
    /\ mark' = NoMark
    /\ UNCHANGED <<rootNodeId, history, nextId>>
    /\ Called("navigateToNode", <<currentNodeId, direction>>)

(* ----------------------------- page load ------------------------------ *)
\* ids of the nodes of a persisted page; they are not ids createNode hands out
PageRootId == MaxNodes + 2
PageChildId == MaxNodes + 3

\* a node record as it is persisted
PageNode(id, parentId, childrenIds, level) ==
    [id |-> id, title |-> "Saved", position |-> [x |-> ROOT_X * XScale, y |-> ROOT_Y],
     color |-> DEFAULT_COLORS_blue, isCompleted |-> FALSE, isCollapsed |-> FALSE,
     parentId |-> parentId, childrenIds |-> childrenIds, level |-> level,
     isSelected |-> FALSE, isEditing |-> FALSE]

\* pageData.nodes as getPageById may return it: a well-formed tree, a tree whose
\* root lists a child that is not stored, data without rootNodeId, and data
\* without nodes
ValidPage ==
    [hasNodes |-> TRUE,
     nodes |-> (PageRootId :> PageNode(PageRootId, NULL, <<PageChildId>>, 0))
               @@ (PageChildId :> PageNode(PageChildId, PageRootId, <<>>, 1)),
     rootNodeId |-> PageRootId]

DanglingPage ==
    [hasNodes |-> TRUE,
     nodes |-> (PageRootId :> PageNode(PageRootId, NULL, <<PageChildId>>, 0)),
     rootNodeId |-> PageRootId]

NoRootIdPage == [ValidPage EXCEPT !.rootNodeId = NULL]

NoNodesPage == [hasNodes |-> FALSE, nodes |-> <<>>, rootNodeId |-> PageRootId]

Pages == {ValidPage, DanglingPage, NoRootIdPage, NoNodesPage}

\* set({nodes, rootNodeId, selectedNodeId: rootNodeId, editingNodeId: null,
\*      canvasPosition: {x: 0, y: 0}, canvasScale: 1.3})
loadMindmapFromData(ns, rootId) ==
    /\ nodes' = ns
    /\ rootNodeId' = rootId
    /\ selectedNodeId' = rootId
    /\ editingNodeId' = NULL
    /\ canvasPosition' = [x |-> 0, y |-> 0]
    /\ canvasScale' = INITIAL_SCALE
    /\ UNCHANGED history

\* if (pageData.nodes && pageData.nodes.nodes && pageData.nodes.rootNodeId)
PageAccepted(pageData) == pageData.hasNodes /\ pageData.rootNodeId # NULL

\* loadPage of the editor, from the answer of getPageById on
loadPage(pageData) ==
    /\ IF PageAccepted(pageData)
       THEN loadMindmapFromData(pageData.nodes, pageData.rootNodeId)
       ELSE UNCHANGED <<nodes, rootNodeId, selectedNodeId, editingNodeId, history,
                        canvasPosition, canvasScale>>
    /\ ret' = RetUndefined
    /\ mark' = NoMark
    /\ UNCHANGED <<nextId, timers, draggedNodeId, inFlight, persisted>>
    /\ loading' = FALSE
    /\ Log("loadPage", <<pageData>>)
    /\ AutoSaveEffect(TRUE)

(* -------------------------- specifications ---------------------------- *)
Structural ==
    \/ \E parentId \in Ids \cup {NULL}, isSibling \in BOOLEAN :
           createNode(parentId, isSibling)
    \/ \E nodeId \in Ids : deleteNode(nodeId)
    \/ \E nodeId \in Ids, newParentId \in Ids : reassignParent(nodeId, newParentId)

PropertyEdit ==
    \/ \E nodeId \in DOMAIN nodes, updates \in Updates : updateNode(nodeId, updates)
    \/ \E nodeId \in Ids : toggleNodeCollapse(nodeId)
    \/ \E nodeId \in Ids : toggleNodeCompletion(nodeId)
    \/ \E nodeId \in Ids, color \in Colors : changeNodeColor(nodeId, color)

\* the tree mutations alone
NextTree == nops < MaxTreeOps /\ Structural

SpecTree == Init /\ [][NextTree]_vars

\* the mutations, the property edits, undo and redo
NextHistory == nops < MaxOps /\ (Structural \/ PropertyEdit \/ undo \/ redo)

SpecHistory == Init /\ [][NextHistory]_vars

\* updateNode with any partial record, on a stored id or on an id that was
\* never stored
UpdateAny ==
    \E nodeId \in DOMAIN nodes \cup {MissingId},
       updates \in Updates \cup StructuralUpdates : updateNode(nodeId, updates)

\* the tree mutations and updateNode
NextEdit == nops < MaxEditOps /\ (Structural \/ UpdateAny)

SpecEdit == Init /\ [][NextEdit]_vars

\* page loads between edits of the stored tree, with undo and redo
NextLoad ==
    /\ nops < MaxLoadOps
    /\ \/ \E parentId \in DOMAIN nodes, isSibling \in BOOLEAN :
              createNode(parentId, isSibling)
       \/ \E pageData \in Pages : loadPage(pageData)
       \/ undo
       \/ redo

SpecLoad == Init /\ [][NextLoad]_vars

\* a store of a root and one child whose titles were typed in
InitSearch ==
    /\ \E rootTitle \in SearchTexts, childTitle \in SearchTexts :
           nodes = (1 :> [rootNode EXCEPT !.title = rootTitle, !.childrenIds = <<2>>])
                   @@ (2 :> [id |-> 2, title |-> childTitle,
                             position |-> [x |-> ROOT_X * XScale, y |-> ROOT_Y],
                             color |-> DEFAULT_COLORS_black, isCompleted |-> FALSE,
                             isCollapsed |-> FALSE, parentId |-> 1,
                             childrenIds |-> <<>>, level |-> 1,
                             isSelected |-> FALSE, isEditing |-> FALSE])
    /\ rootNodeId = 1
    /\ selectedNodeId = 1
    /\ editingNodeId = NULL
    /\ history = [past |-> <<>>, present |-> Stringify(nodes, 1), future |-> <<>>]
    /\ canvasPosition = [x |-> 0, y |-> 0]
    /\ canvasScale = INITIAL_SCALE
    /\ nextId = 3
    /\ ret = RetUndefined
    /\ lastOp = [name |-> "init", args |-> <<>>]
    /\ mark = NoMark
    /\ nops = 0
    /\ InitOutside

\* searches between updates of stored and of absent ids
NextSearch ==
    /\ nops < MaxSearchOps
    /\ \/ \E nodeId \in DOMAIN nodes \cup {MissingId}, updates \in SearchUpdates :
              updateNode(nodeId, updates)
       \/ \E query \in Queries : searchNodes(query)

SpecSearch == InitSearch /\ [][NextSearch]_vars

Next ==
    /\ nops < MaxOps
    /\ \/ Structural
       \/ PropertyEdit
       \/ undo
       \/ redo
       \/ \E nodeId \in Ids \cup {NULL} : selectNode(nodeId)
       \/ \E nodeId \in Ids : startEditing(nodeId)
       \/ stopEditing
       \/ \E position \in CanvasPositions : setCanvasPosition(position)
       \/ \E scale \in CanvasScales : setCanvasScale(scale)

Spec == Init /\ [][Next]_vars

(* ------------------- the layout as a pure function -------------------- *)
\* the input trees of the layout function: every shape on 1..n (the parent of
\* a node has a smaller id), children in increasing or in decreasing id order,
\* any titles, collapse flags and prior positions; levels as the mutations
\* keep them
LayoutTitles == {"New Node", "A title long enough to reach the width cap"}

PriorPositions == {[x |-> ROOT_X * XScale, y |-> ROOT_Y], [x |-> 35, y |-> -7]}

RECURSIVE Ascending(_)
Ascending(S) ==
    IF S = {} THEN <<>>
    ELSE LET m == CHOOSE a \in S : \A b \in S : a <= b
         IN <<m>> \o Ascending(S \ {m})

Reverse(seq) == [i \in 1..Len(seq) |-> seq[Len(seq) + 1 - i]]

ParentVectors(n) == {p \in [2..n -> 1..n] : \A i \in 2..n : p[i] < i}

RECURSIVE Depth(_, _)
Depth(p, i) == IF i = 1 THEN 0 ELSE 1 + Depth(p, p[i])

InputTree(n, p, descending, titles, collapsed, positions) ==
    [i \in 1..n |->
        [id |-> i, title |-> titles[i], position |-> positions[i],
         color |-> DEFAULT_COLORS_black, isCompleted |-> FALSE,
         isCollapsed |-> collapsed[i],
         parentId |-> IF i = 1 THEN NULL ELSE p[i],
         childrenIds |-> LET asc == Ascending({j \in 2..n : p[j] = i})
                         IN IF descending THEN Reverse(asc) ELSE asc,
         level |-> Depth(p, i),
         isSelected |-> (i = 1), isEditing |-> FALSE]]

InitLayout ==
    /\ \E n \in 1..MaxLayoutNodes :
       \E p \in ParentVectors(n), descending \in BOOLEAN,
          titles \in [1..n -> LayoutTitles], collapsed \in [1..n -> BOOLEAN],
          positions \in [1..n -> PriorPositions] :
            nodes = InputTree(n, p, descending, titles, collapsed, positions)
    /\ rootNodeId = 1
    /\ selectedNodeId = 1
    /\ editingNodeId = NULL
    /\ history = [past |-> <<>>, present |-> Stringify(nodes, 1), future |-> <<>>]
    /\ canvasPosition = [x |-> 0, y |-> 0]
    /\ canvasScale = INITIAL_SCALE
    /\ nextId = MaxNodes + 1
    /\ ret = RetUndefined
    /\ lastOp = [name |-> "init", args |-> <<>>]
    /\ mark = NoMark
    /\ nops = 0
    /\ InitOutside

\* one application of calculateBalancedLayout to the store's tree
applyLayout ==
    /\ nodes' = calculateBalancedLayout(nodes, rootNodeId)
    /\ ret' = RetUndefined
    /\ mark' = NoMark
    /\ UNCHANGED <<rootNodeId, selectedNodeId, editingNodeId, history, nextId>>
    /\ Called("layout", <<>>)

NextLayout == nops < LayoutRuns /\ applyLayout

SpecLayout == InitLayout /\ [][NextLayout]_vars

\* keyboard navigation on the input trees, before and after a layout
NextNav ==
    /\ nops < MaxNavOps
    /\ \/ applyLayout
       \/ \E currentNodeId \in 1..MaxLayoutNodes, direction \in Directions :
              navigateToNode(currentNodeId, direction)

SpecNav == InitLayout /\ [][NextNav]_vars

(* ---------------------- deferred layout commits ----------------------- *)
\* the delays of the two setTimeout calls of the store, in milliseconds
REBALANCE_DELAY == 50
EDIT_REBALANCE_DELAY == 100

\* what a step outside the tree operations leaves alone
OutsideFrame ==
    /\ ret' = RetUndefined
    /\ mark' = NoMark
    /\ UNCHANGED <<canvasPosition, canvasScale, loading, inFlight, persisted>>

\* the callback rebalanceLayout hands to setTimeout: it closes over `state`,
\* the store as get() returned it when rebalanceLayout was called; armedAt is
\* the step that armed the timer
RebalanceTimer(ns, rootId) ==
    [delay |-> REBALANCE_DELAY, nodes |-> ns, rootNodeId |-> rootId, late |-> FALSE,
     armedAt |-> nops + 1]

\* the callback createNodeDuringEdit hands to setTimeout: it calls get() when
\* it runs
EditRebalanceTimer ==
    [delay |-> EDIT_REBALANCE_DELAY, nodes |-> <<>>, rootNodeId |-> NULL, late |-> TRUE,
     armedAt |-> nops + 1]

rebalanceLayout ==
    /\ Len(timers) < MaxTimers
    /\ timers' = Append(timers, RebalanceTimer(nodes, rootNodeId))
    /\ OutsideFrame
    /\ UNCHANGED <<nodes, rootNodeId, selectedNodeId, editingNodeId, history, nextId,
                   draggedNodeId>>
    /\ Log("rebalanceLayout", <<>>)
    /\ AutoSaveEffect(FALSE)

\* the node record createNodeDuringEdit builds (lines 241-280)
NewNodeDuringEdit(newId, parentId, isSibling) ==
    LET parentNode == nodes[parentId]
        asSibling == parentId # NULL /\ isSibling /\ parentNode.parentId # NULL
        actualParentId == IF asSibling THEN parentNode.parentId ELSE parentId
        level == IF parentId = NULL THEN 0
                 ELSE IF asSibling THEN nodes[parentNode.parentId].level + 1
                 ELSE parentNode.level + 1
        position ==
            IF parentId = NULL THEN [x |-> ROOT_X * XScale, y |-> ROOT_Y]
            ELSE IF asSibling
                 THEN [x |-> parentNode.position.x, y |-> parentNode.position.y + 60]
                 ELSE [x |-> parentNode.position.x + getNodeWidth(parentNode)
                               + MIN_HORIZONTAL_SPACING * XScale,
                       y |-> parentNode.position.y + Len(parentNode.childrenIds) * 60]
    IN [id |-> newId, title |-> "New Node", position |-> position,
        color |-> DEFAULT_COLORS_black, isCompleted |-> FALSE, isCollapsed |-> FALSE,
        parentId |-> actualParentId, childrenIds |-> <<>>, level |-> level,
        isSelected |-> FALSE, isEditing |-> FALSE]

\* the nodes map the set() callback of createNodeDuringEdit returns: the node
\* is added, nothing is rebalanced
CreateNodeDuringEditNodes(newNode) ==
    LET added == (newNode.id :> newNode) @@ nodes
    IN IF newNode.parentId # NULL
       THEN [added EXCEPT ![newNode.parentId].childrenIds = Append(@, newNode.id)]
       ELSE added

createNodeDuringEdit(parentId, isSibling) ==
    /\ nextId <= MaxNodes
    /\ Len(timers) < MaxTimers
    /\ IF CreateNodeThrows(parentId, isSibling)
       THEN Throws /\ UNCHANGED timers
       ELSE LET newNode == NewNodeDuringEdit(nextId, parentId, isSibling) IN
            /\ nodes' = CreateNodeDuringEditNodes(newNode)
            /\ selectedNodeId' = nextId
            /\ editingNodeId' = nextId
            /\ timers' = Append(timers, EditRebalanceTimer)
            /\ nextId' = nextId + 1
            /\ ret' = RetId(nextId)
            /\ UNCHANGED <<rootNodeId, history>>
            /\ mark' = NoMark
    /\ UNCHANGED <<canvasPosition, canvasScale, draggedNodeId, loading, inFlight,
                   persisted>>
    /\ Log("createNodeDuringEdit", <<parentId, isSibling>>)
    /\ AutoSaveEffect(<<nodes', rootNodeId'>> # <<nodes, rootNodeId>>)

\* the k-th pending timer is the next to run: no timer armed before it has a
\* delay as short as its own
TimerDue(k) == \A j \in 1..(k - 1) : timers[j].delay > timers[k].delay

\* the timers without the k-th
Expired(k) == SubSeq(timers, 1, k - 1) \o SubSeq(timers, k + 1, Len(timers))

\* the tree a timer callback rebalances
TimerNodes(timer) ==
    IF timer.late THEN rebalanceTree(nodes, rootNodeId)
    ELSE rebalanceTree(timer.nodes, timer.rootNodeId)

\* a timer callback runs: set({ nodes: balancedNodes }); get().saveToHistory()
layoutCommit(k) ==
    /\ k \in 1..Len(timers)
    /\ TimerDue(k)
    /\ nodes' = TimerNodes(timers[k])
    /\ history' = saveToHistory(nodes', rootNodeId, history)
    /\ timers' = Expired(k)
    /\ OutsideFrame
    /\ UNCHANGED <<rootNodeId, selectedNodeId, editingNodeId, nextId, draggedNodeId>>
    /\ Log("layoutCommit", <<timers[k].delay, timers[k].armedAt>>)
    /\ AutoSaveEffect(<<nodes', rootNodeId'>> # <<nodes, rootNodeId>>)

(* ------------------------------ drag gesture -------------------------- *)
\* where a node can be dragged to
DragPositions == {[x |-> 35, y |-> -7], [x |-> 3000, y |-> 346]}

\* the canvas draws the visible nodes and makes all of them but the root
\* draggable
Draggable(nodeId) ==
    /\ nodeId # rootNodeId
    /\ IsVisible(getVisibleNodes(nodes, rootNodeId), nodeId)

handleNodeDragStart(nodeId) ==
    /\ draggedNodeId = NULL
    /\ Draggable(nodeId)
    /\ draggedNodeId' = nodeId
    /\ OutsideFrame
    /\ UNCHANGED <<nodes, rootNodeId, selectedNodeId, editingNodeId, history, nextId,
                   timers>>
    /\ Log("handleNodeDragStart", <<nodeId>>)
    /\ AutoSaveEffect(FALSE)

\* { ...state.nodes, [nodeId]: { ...state.nodes[nodeId], position: newPosition } }
MoveNodeNodes(nodeId, newPosition) ==
    (nodeId :> Merge(Lookup(nodes, nodeId), [position |-> newPosition])) @@ nodes

moveNode(nodeId, newPosition) ==
    /\ nodes' = MoveNodeNodes(nodeId, newPosition)
    /\ OutsideFrame
    /\ UNCHANGED <<rootNodeId, selectedNodeId, editingNodeId, history, nextId,
                   timers, draggedNodeId>>
    /\ Log("moveNode", <<nodeId, newPosition>>)
    /\ AutoSaveEffect(<<nodes', rootNodeId'>> # <<nodes, rootNodeId>>)

\* the dragged node follows the pointer
handleNodeDragMove(nodeId, newPosition) ==
    /\ draggedNodeId = nodeId
    /\ Draggable(nodeId)
    /\ moveNode(nodeId, newPosition)

\* the nodes findNearestParent measures: all but the dragged node and its
\* descendants
ParentCandidates(nodeId) ==
    {i \in DOMAIN nodes : i # nodeId /\ ~isDescendant(nodes, i, nodeId)}

\* what findNearestParent can return: the candidate whose centre is nearest to
\* the drop position, which the pointer can make any candidate; null when
\* there is no candidate
NearestParents(nodeId) ==
    IF ParentCandidates(nodeId) = {} THEN {NULL} ELSE ParentCandidates(nodeId)

\* if (nearest && nearest !== draggedNode.parentId)
Reparents(nearest, draggedNode) == nearest # NULL /\ nearest # draggedNode.parentId

\* the drop: reassignParent when the nearest node is not the parent, then
\* rebalanceLayout(), which arms its timer with the store as it then is
handleNodeDragEnd(nodeId, nearest) ==
    /\ draggedNodeId = nodeId
    /\ Draggable(nodeId)
    /\ nearest \in NearestParents(nodeId)
    /\ Len(timers) < MaxTimers
    /\ draggedNodeId' = NULL
    /\ IF Reparents(nearest, nodes[nodeId])
       THEN IF ReassignRejected(nodeId, nearest)
            THEN UNCHANGED <<nodes, history>>
            ELSE /\ nodes' = ReassignParentNodes(nodeId, nearest)
                 /\ history' = saveToHistory(nodes', rootNodeId, history)
       ELSE UNCHANGED <<nodes, history>>
    /\ timers' = Append(timers, RebalanceTimer(nodes', rootNodeId))
    /\ OutsideFrame
    /\ UNCHANGED <<rootNodeId, selectedNodeId, editingNodeId, nextId>>
    /\ Log("handleNodeDragEnd", <<nodeId, nearest, Reparents(nearest, nodes[nodeId])>>)
    /\ AutoSaveEffect(<<nodes', rootNodeId'>> # <<nodes, rootNodeId>>)

\* the tree operations of the user interface on stored nodes, undo and redo,
\* the drag gesture, and the deferred layout commits between them
NextTimers ==
    /\ nops < MaxTimerOps
    /\ \/ \E parentId \in DOMAIN nodes : createNode(parentId, FALSE)
       \/ \E nodeId \in DOMAIN nodes : deleteNode(nodeId)
       \/ \E nodeId \in DOMAIN nodes, updates \in {[title |-> "Plan"]} :
              updateNode(nodeId, updates)
       \/ \E nodeId \in DOMAIN nodes : selectNode(nodeId)
       \/ undo
       \/ redo
       \/ rebalanceLayout
       \/ \E parentId \in DOMAIN nodes : createNodeDuringEdit(parentId, FALSE)
       \/ \E k \in 1..MaxTimers : layoutCommit(k)
       \/ \E nodeId \in DOMAIN nodes : handleNodeDragStart(nodeId)
       \/ \E nodeId \in DOMAIN nodes, newPosition \in DragPositions :
              handleNodeDragMove(nodeId, newPosition)
       \/ \E nodeId \in DOMAIN nodes, nearest \in DOMAIN nodes \cup {NULL} :
              handleNodeDragEnd(nodeId, nearest)

SpecTimers == Init /\ [][NextTimers]_vars

\* drag gestures on trees with collapsed nodes
NextDrag ==
    /\ nops < MaxDragOps
    /\ \/ \E parentId \in DOMAIN nodes : createNode(parentId, FALSE)
       \/ \E nodeId \in DOMAIN nodes : toggleNodeCollapse(nodeId)
       \/ \E k \in 1..MaxTimers : layoutCommit(k)
       \/ \E nodeId \in DOMAIN nodes : handleNodeDragStart(nodeId)
       \/ \E nodeId \in DOMAIN nodes, newPosition \in DragPositions :
              handleNodeDragMove(nodeId, newPosition)
       \/ \E nodeId \in DOMAIN nodes, nearest \in DOMAIN nodes \cup {NULL} :
              handleNodeDragEnd(nodeId, nearest)

SpecDrag == Init /\ [][NextDrag]_vars

(* ------------------------------ auto-save ----------------------------- *)
\* the k-th element taken out of a sequence
Drop(seq, k) == SubSeq(seq, 1, k - 1) \o SubSeq(seq, k + 1, Len(seq))

\* what an auto-save step leaves alone: the whole store
SaveFrame ==
    /\ ret' = RetUndefined
    /\ mark' = NoMark
    /\ UNCHANGED <<nodes, rootNodeId, selectedNodeId, editingNodeId, history, nextId,
                   canvasPosition, canvasScale, timers, draggedNodeId, loading>>

\* the debounce timer runs saveData: MindmapService.saveMindmapData(pageId,
\* nodes, rootNodeId) is started with the nodes and rootNodeId the timer holds
saveData(k) ==
    /\ k \in 1..Len(saveTimers)
    /\ Len(inFlight) < MaxInFlight
    /\ inFlight' = Append(inFlight, saveTimers[k])
    /\ saveTimers' = Drop(saveTimers, k)
    /\ UNCHANGED persisted
    /\ SaveFrame
    /\ Log("saveData", <<>>)

\* the update of the page row that completes next: any of those in flight
AnyWrite(k) == k \in 1..Len(inFlight)

\* one update of mindmap_pages completes: the row holds what that call sent
updatePage(k) ==
    /\ k \in 1..Len(inFlight)
    /\ AnyWrite(k)
    /\ persisted' = inFlight[k]
    /\ inFlight' = Drop(inFlight, k)
    /\ UNCHANGED saveTimers
    /\ SaveFrame
    /\ Log("updatePage", <<>>)

\* the nodes column of a page row
PageColumn(pageData) == [nodes |-> pageData.nodes, rootNodeId |-> pageData.rootNodeId]

\* the store as constructed, the editor page mounted on a saved page that is
\* still loading
InitSave ==
    /\ nodes = (1 :> rootNode)
    /\ rootNodeId = 1
    /\ selectedNodeId = 1
    /\ editingNodeId = NULL
    /\ history = [past |-> <<>>, present |-> Stringify(1 :> rootNode, 1), future |-> <<>>]
    /\ canvasPosition = [x |-> 0, y |-> 0]
    /\ canvasScale = INITIAL_SCALE
    /\ nextId = 2
    /\ ret = RetUndefined
    /\ lastOp = [name |-> "init", args |-> <<>>]
    /\ mark = NoMark
    /\ nops = 0
    /\ timers = <<>>
    /\ draggedNodeId = NULL
    /\ loading = TRUE
    /\ saveTimers = <<>>
    /\ inFlight = <<>>
    /\ persisted = PageColumn(ValidPage)

\* the page is loaded once, then edits, debounce timers and writes
NextSave ==
    /\ nops < MaxSaveOps
    /\ \/ loading /\ loadPage(ValidPage)
       \/ ~loading /\ \E parentId \in DOMAIN nodes : createNode(parentId, FALSE)
       \/ ~loading /\ \E nodeId \in DOMAIN nodes : deleteNode(nodeId)
       \/ ~loading /\ \E nodeId \in DOMAIN nodes, updates \in {[title |-> "Plan"]} :
                          updateNode(nodeId, updates)
       \/ \E k \in 1..MaxInFlight : saveData(k)
       \/ \E k \in 1..MaxInFlight : updatePage(k)

SpecSave == InitSave /\ [][NextSave]_vars

(* ---------------------------- context menu ---------------------------- *)
\* the menu is rendered for a stored node only (`if (!node) return null`)
MenuShown(nodeId) == nodeId \in DOMAIN nodes

\* 'Add Child': createNode(nodeId)
menuAddChild(nodeId) ==
    /\ MenuShown(nodeId)
    /\ createNode(nodeId, FALSE)

\* 'Add Sibling', disabled when the node has no parent:
\* createNode(node.parentId, true)
menuAddSibling(nodeId) ==
    /\ MenuShown(nodeId)
    /\ nodes[nodeId].parentId # NULL
    /\ createNode(nodes[nodeId].parentId, TRUE)

\* 'Delete Node', disabled for the node under the first key of nodes, which
\* is the root (the first node put in the map): deleteNode(nodeId)
menuDelete(nodeId) ==
    /\ MenuShown(nodeId)
    /\ nodeId # rootNodeId
    /\ deleteNode(nodeId)

NextMenu ==
    /\ nops < MaxMenuOps
    /\ \E nodeId \in Ids :
          \/ menuAddChild(nodeId)
          \/ menuAddSibling(nodeId)
          \/ menuDelete(nodeId)

SpecMenu == Init /\ [][NextMenu]_vars

(* ============================== claims ================================ *)
Range(seq) == {seq[i] : i \in 1..Len(seq)}

NoRepeats(seq) == \A i, j \in 1..Len(seq) : seq[i] = seq[j] => i = j

Stored == DOMAIN nodes

\* X and its transitive descendants in ns, by the parentId chain
Subtree(ns, X) == {i \in DOMAIN ns : i = X \/ isDescendant(ns, i, X)}

\* the store as it was before the last snapshot was taken
Before == Last(history.past).nodes

(* C1: after every createNode, deleteNode or reassignParent exactly one  *)
(* stored node has parentId = null, and it is the node rootNodeId names. *)
C1_SingleRoot == {i \in Stored : nodes[i].parentId = NULL} = {rootNodeId}

(* C2: after every createNode, deleteNode or reassignParent, the         *)
(* childrenIds of every stored node P has no repeated id and holds       *)
(* exactly the stored nodes whose parentId is P.                         *)
C2_ParentChildAgree ==
    \A P \in Stored :
        /\ NoRepeats(nodes[P].childrenIds)
        /\ Range(nodes[P].childrenIds) = {c \in Stored : nodes[c].parentId = P}

\* a node with children has just been moved from one parent to another
C2_Witness ==
    /\ lastOp.name = "reassignParent"
    /\ lastOp.args[1] \in Stored
    /\ nodes[lastOp.args[1]].parentId = lastOp.args[2]
    /\ nodes[lastOp.args[1]].childrenIds # <<>>
    /\ Before[lastOp.args[1]].parentId \notin {NULL, lastOp.args[2]}

\* i reaches the root in at most k steps along parentId
RECURSIVE ReachesRoot(_, _)
ReachesRoot(i, k) ==
    \/ i = rootNodeId
    \/ /\ k > 0
       /\ i \in Stored
       /\ nodes[i].parentId # NULL
       /\ ReachesRoot(nodes[i].parentId, k - 1)

(* C3: in every state reachable by createNode, deleteNode and            *)
(* reassignParent no node is its own ancestor: the parentId chain of     *)
(* every stored node reaches the root without visiting a node twice.     *)
C3_Acyclic ==
    \A i \in Stored :
        /\ ReachesRoot(i, Cardinality(Stored))
        /\ ~isDescendant(nodes, i, i)

(* C4: after every createNode, deleteNode or reassignParent the root has *)
(* level 0 and every other stored node that has a parent is one level    *)
(* below it.                                                             *)
C4_Levels ==
    /\ rootNodeId \in Stored
    /\ nodes[rootNodeId].level = 0
    /\ \A i \in Stored \ {rootNodeId} :
           nodes[i].parentId # NULL =>
               /\ nodes[i].parentId \in Stored
               /\ nodes[i].level = nodes[nodes[i].parentId].level + 1

(* C5: deleteNode(X) of a stored non-root X removes exactly X and its    *)
(* transitive descendants, and no node that remains names a removed id   *)
(* as its parentId or in its childrenIds.                                *)
C5_CascadingDelete ==
    [][(/\ lastOp'.name = "deleteNode"
        /\ lastOp'.args[1] \in Stored
        /\ lastOp'.args[1] # rootNodeId)
       => LET removed == Subtree(nodes, lastOp'.args[1]) IN
          /\ DOMAIN nodes' = Stored \ removed
          /\ \A i \in DOMAIN nodes' :
                 /\ nodes'[i].parentId \notin removed
                 /\ Range(nodes'[i].childrenIds) \cap removed = {}]_vars

\* a node that had a child was deleted, and the child went with it
C5_Witness ==
    /\ lastOp.name = "deleteNode"
    /\ history.past # <<>>
    /\ lastOp.args[1] \in DOMAIN Before
    /\ lastOp.args[1] \notin Stored
    /\ Before[lastOp.args[1]].childrenIds # <<>>
    /\ Before[lastOp.args[1]].parentId # NULL

\* reassignParent(A, B) was called with stored A and B, B a descendant of A
CycleAttempt ==
    /\ lastOp'.name = "reassignParent"
    /\ lastOp'.args[1] \in Stored
    /\ lastOp'.args[2] \in Stored
    /\ isDescendant(nodes, lastOp'.args[2], lastOp'.args[1])

C7_RoundTrip ==
    mark.phase = "redo" =>
        Stringify(nodes, rootNodeId) = Stringify(mark.nodes, mark.rootNodeId)

(* C8: after undo(), any new mutation (structural, or a property edit)   *)
(* makes history.future empty.                                           *)
C8_MutationClearsFuture ==
    [][(lastOp.name = "undo" /\ mark'.phase = "M") => history'.future = <<>>]_vars

(* C9: for any tree T, laying out twice gives the same positions and     *)
(* levels as laying out once: layout(layout(T)) = layout(T).             *)
C9_LayoutIdempotent ==
    lastOp.name = "layout" => calculateBalancedLayout(nodes, rootNodeId) = nodes

\* the layout has run twice on a tree with a collapsed node and a visible
\* non-root node that is itself a parent
C9_Witness ==
    /\ lastOp.name = "layout"
    /\ nops >= 2
    /\ \E i \in Stored : nodes[i].isCollapsed
    /\ \E j \in Stored \ {rootNodeId} :
           /\ ~nodes[j].isCollapsed
           /\ nodes[j].childrenIds # <<>>
           /\ nodes[j].position.x > nodes[rootNodeId].position.x

(* C10: createNode(N, asSibling = true) on a stored N with parent P      *)
(* creates a node with parentId P and level N.level, appended after the  *)
(* children P had; on an N without a parent it creates a child of N with *)
(* level N.level + 1.                                                    *)
C10_SiblingCreation ==
    [][(/\ lastOp'.name = "createNode"
        /\ lastOp'.args[1] \in Stored
        /\ lastOp'.args[2]
        /\ ret'.kind = "id")
       => LET N == lastOp'.args[1]
              P == nodes[N].parentId
              new == ret'.value
          IN IF P # NULL
             THEN /\ nodes'[new].parentId = P
                  /\ nodes'[new].level = nodes'[N].level
                  /\ nodes'[P].childrenIds = Append(nodes[P].childrenIds, new)
             ELSE /\ nodes'[new].parentId = N
                  /\ nodes'[new].level = nodes'[N].level + 1
                  /\ nodes'[N].childrenIds = Append(nodes[N].childrenIds, new)]_vars

Reparented ==
    /\ lastOp'.name = "reassignParent"
    /\ ~ReassignRejected(lastOp'.args[1], lastOp'.args[2])
    /\ ret'.kind # "throws"

(* C12: a successful reassignParent(X, P) takes X out of its old         *)
(* parent's childrenIds, the other children keeping their order, appends *)
(* X last in P's childrenIds, sets X.parentId to P, and leaves X and     *)
(* every transitive descendant of X one level below its parent.          *)
C12_Reparent ==
    [][Reparented
       => LET X == lastOp'.args[1]
              P == lastOp'.args[2]
              old == nodes[X].parentId
          IN /\ (old # NULL /\ old # P) =>
                    nodes'[old].childrenIds = Without(nodes[old].childrenIds, X)
             /\ nodes'[P].childrenIds = Append(Without(nodes[P].childrenIds, X), X)
             /\ nodes'[X].parentId = P
             /\ \A d \in Subtree(nodes', X) :
                    nodes'[d].level = nodes'[nodes'[d].parentId].level + 1]_vars

(* C13: reassignParent(C, P) on a stored C whose parent already is P     *)
(* changes nothing: the order of P's childrenIds, every node record and  *)
(* the history stacks stay as they were.                                 *)
C13_SameParentNoOp ==
    [][(/\ lastOp'.name = "reassignParent"
        /\ lastOp'.args[1] \in Stored
        /\ lastOp'.args[2] \in Stored
        /\ nodes[lastOp'.args[1]].parentId = lastOp'.args[2])
       => UNCHANGED <<nodes, history>>]_vars

(* C14: in every reachable state deleteNode(rootNodeId) changes nothing: *)
(* nodes, rootNodeId, selectedNodeId, editingNodeId and the history stay *)
(* as they were.                                                         *)
C14_RootProtected ==
    [][(lastOp'.name = "deleteNode" /\ lastOp'.args[1] = rootNodeId)
       => UNCHANGED <<nodes, rootNodeId, selectedNodeId, editingNodeId, history>>]_vars

\* deleteNode was just called on a stored root that has children, while
\* another node was selected and being edited
C14_Witness ==
    /\ lastOp.name = "deleteNode"
    /\ lastOp.args[1] = rootNodeId
    /\ rootNodeId \in Stored
    /\ nodes[rootNodeId].childrenIds # <<>>
    /\ selectedNodeId \notin {NULL, rootNodeId}
    /\ editingNodeId # NULL
    /\ history.past # <<>>

(* C15: after a successful deleteNode(X), whichever node was selected or *)
(* edited before, selectedNodeId is the id of X's former parent, which   *)
(* is still stored, and editingNodeId is null.                           *)
C15_SelectionAfterDelete ==
    [][(/\ lastOp'.name = "deleteNode"
        /\ ~DeleteNodeRejected(lastOp'.args[1])
        /\ ret'.kind # "throws")
       => /\ selectedNodeId' = nodes[lastOp'.args[1]].parentId
          /\ selectedNodeId' \in DOMAIN nodes'
          /\ editingNodeId' = NULL]_vars

(* C16: createNode with a non-null parentId that names no stored node is *)
(* a silent no-op: it does not throw, and nodes, selectedNodeId,         *)
(* editingNodeId and the history stay as they were.                      *)
C16_MissingParentSilent ==
    [][(/\ lastOp'.name = "createNode"
        /\ lastOp'.args[1] # NULL
        /\ lastOp'.args[1] \notin Stored)
       => /\ ret'.kind # "throws"
          /\ UNCHANGED <<nodes, selectedNodeId, editingNodeId, history>>]_vars

(* C17: updateNode(id, fields) with an id that is not stored changes     *)
(* nothing: the set of stored ids and every stored record stay as they   *)
(* were, and no entry is created under id.                               *)
C17_UpdateMissingNoOp ==
    [][(lastOp'.name = "updateNode" /\ lastOp'.args[1] \notin Stored)
       => nodes' = nodes]_vars

\* the structural fields a record has
StructuralFields(node) ==
    [f \in {"parentId", "childrenIds", "level"} \cap DOMAIN node |-> node[f]]

(* C18: updateNode(id, partialFields) changes the parentId, childrenIds  *)
(* and level of no node, whatever fields partialFields has, and changes  *)
(* the record of no node other than id.                                  *)
C18_UpdateFrame ==
    [][lastOp'.name = "updateNode"
       => \A i \in Stored :
              /\ i \in DOMAIN nodes'
              /\ StructuralFields(nodes'[i]) = StructuralFields(nodes[i])
              /\ i # lastOp'.args[1] => nodes'[i] = nodes[i]]_vars

\* all snapshots of a history, oldest first
Timeline(h) == h.past \o <<h.present>> \o h.future

(* C19: undo() with an empty past changes nothing; otherwise it takes    *)
(* the last entry of past, makes it present, puts the old present at the *)
(* front of future and sets (nodes, rootNodeId) to the taken snapshot.   *)
(* redo() mirrors it from the front of future. Both keep |past| +        *)
(* |future| and the order of all snapshots.                              *)
C19_UndoRedo ==
    [][/\ lastOp'.name = "undo" =>
             IF history.past = <<>>
             THEN UNCHANGED <<nodes, rootNodeId, selectedNodeId, editingNodeId, history>>
             ELSE /\ history'.past = Front(history.past)
                  /\ history'.present = Last(history.past)
                  /\ history'.future = <<history.present>> \o history.future
                  /\ nodes' = Parse(Last(history.past)).nodes
                  /\ rootNodeId' = Parse(Last(history.past)).rootNodeId
       /\ lastOp'.name = "redo" =>
             IF history.future = <<>>
             THEN UNCHANGED <<nodes, rootNodeId, selectedNodeId, editingNodeId, history>>
             ELSE /\ history'.past = history.past \o <<history.present>>
                  /\ history'.present = Head(history.future)
                  /\ history'.future = Tail(history.future)
                  /\ nodes' = Parse(Head(history.future)).nodes
                  /\ rootNodeId' = Parse(Head(history.future)).rootNodeId
       /\ lastOp'.name \in {"undo", "redo"} =>
             /\ Len(history'.past) + Len(history'.future)
                    = Len(history.past) + Len(history.future)
             /\ Timeline(history') = Timeline(history)]_vars

\* undo has just run for the second time in a row, on two different snapshots
C19_Witness ==
    /\ lastOp.name = "undo"
    /\ Len(history.future) >= 2
    /\ history.future[1] # history.future[2]
    /\ nodes = Parse(history.present).nodes

(* C20: after an undo() or redo() that is not a no-op, selectedNodeId    *)
(* and editingNodeId are null, no stored node has isSelected or          *)
(* isEditing true, and the canvas position and scale are as before.      *)
C20_TransientStateNotRestored ==
    [][(\/ lastOp'.name = "undo" /\ history.past # <<>>
        \/ lastOp'.name = "redo" /\ history.future # <<>>)
       => /\ selectedNodeId' = NULL
          /\ editingNodeId' = NULL
          /\ \A i \in DOMAIN nodes' :
                 ~nodes'[i].isSelected /\ ~nodes'[i].isEditing
          /\ UNCHANGED <<canvasPosition, canvasScale>>]_vars

\* the step is a call of createNode, deleteNode or reassignParent
StructuralCall == lastOp'.name \in {"createNode", "deleteNode", "reassignParent"}

\* the call was neither rejected by an early return nor ended by a throw
StructuralSuccess ==
    /\ StructuralCall
    /\ ret'.kind # "throws"
    /\ lastOp'.name = "deleteNode" => ~DeleteNodeRejected(lastOp'.args[1])
    /\ lastOp'.name = "reassignParent" =>
           ~ReassignRejected(lastOp'.args[1], lastOp'.args[2])

(* C21: each successful createNode, deleteNode or reassignParent adds    *)
(* exactly one snapshot: past grows by the old present, present becomes  *)
(* the serialization of the resulting (nodes, rootNodeId) and future     *)
(* becomes empty; each rejected call leaves the history as it was.       *)
C21_OneSnapshotPerMutation ==
    [][/\ StructuralSuccess =>
             /\ history'.past = history.past \o <<history.present>>
             /\ history'.present = Stringify(nodes', rootNodeId')
             /\ history'.future = <<>>
       /\ (StructuralCall /\ ~StructuralSuccess) => history' = history]_vars

\* a deleteNode or reassignParent has just completed and left its snapshot on
\* top of two different earlier ones
C21_Witness ==
    /\ lastOp.name \in {"deleteNode", "reassignParent"}
    /\ mark.phase = "M"
    /\ Len(history.past) >= 2
    /\ history.past[1] # history.past[2]
    /\ history.present # Last(history.past)
    /\ history.future = <<>>

(* C22: in every state reached by selectNode, startEditing, stopEditing, *)
(* createNode, deleteNode, undo and redo, editing implies selected: if   *)
(* editingNodeId is not null then selectedNodeId equals editingNodeId.   *)
C22_EditingImpliesSelected ==
    editingNodeId # NULL => selectedNodeId = editingNodeId

(* C23: in every reachable state at most one stored node has isSelected  *)
(* true, and a stored node has isSelected true exactly when its id is    *)
(* selectedNodeId, also right after createNode and deleteNode have moved *)
(* the selection.                                                        *)
C23_SelectionFlagAgrees ==
    /\ Cardinality({i \in Stored : nodes[i].isSelected}) <= 1
    /\ \A i \in Stored : nodes[i].isSelected <=> (i = selectedNodeId)

RECURSIVE HasCollapsedAncestor(_, _)
\* some proper ancestor of i, by the parentId chain, is collapsed
HasCollapsedAncestor(ns, i) ==
    /\ ns[i].parentId # NULL
    /\ ns[i].parentId \in DOMAIN ns
    /\ \/ ns[ns[i].parentId].isCollapsed
       \/ HasCollapsedAncestor(ns, ns[i].parentId)

\* the nodes the claims call visible: those with no collapsed proper ancestor
VisibleNodes(ns) == {i \in DOMAIN ns : ~HasCollapsedAncestor(ns, i)}

\* ns with the positions of the nodes named by prior replaced by prior's
WithPriorPositions(ns, prior) ==
    [i \in DOMAIN ns |->
        IF i \in DOMAIN prior THEN [ns[i] EXCEPT !.position = prior[i]] ELSE ns[i]]

(* C24: layout positions depend on the tree shape and the collapse flags *)
(* alone: a tree that differs from the laid-out one only in the prior    *)
(* positions of non-root nodes gets, after layout, the same position for *)
(* every visible node (every node with no collapsed proper ancestor).    *)
C24_LayoutIgnoresPriorPositions ==
    [][lastOp'.name = "layout"
       => \A prior \in [Stored \ {rootNodeId} -> PriorPositions] :
              LET twin == calculateBalancedLayout(
                              WithPriorPositions(nodes, prior), rootNodeId)
              IN \A i \in VisibleNodes(nodes) :
                     twin[i].position = nodes'[i].position]_vars

\* ns as the claim reads the collapse flag: a collapsed node shows no children
\* and is itself an ordinary child of its parent
ChildrenHidden(ns) ==
    [i \in DOMAIN ns |->
        [ns[i] EXCEPT !.childrenIds = IF ns[i].isCollapsed THEN <<>> ELSE @,
                      !.isCollapsed = FALSE]]

(* C25: in layout a node with isCollapsed = true is itself positioned    *)
(* like any other visible node and takes the fixed node height in its    *)
(* parent's block, while its children are left out: they add nothing to  *)
(* any subtree height and keep their stored positions. This holds for    *)
(* the root as for inner nodes. So every node ends where the layout of   *)
(* the tree with the children of collapsed nodes cut off puts it.        *)
C25_CollapsedHidesChildren ==
    [][lastOp'.name = "layout"
       => LET expected == calculateBalancedLayout(ChildrenHidden(nodes), rootNodeId)
          IN \A i \in Stored : nodes'[i].position = expected[i].position]_vars

\* the loaded data lacks nodes or rootNodeId, or a childrenIds names an id that
\* is not among its nodes
Corrupt(pageData) ==
    \/ ~pageData.hasNodes
    \/ pageData.rootNodeId = NULL
    \/ \E i \in DOMAIN pageData.nodes :
           \E c \in Range(pageData.nodes[i].childrenIds) : c \notin DOMAIN pageData.nodes

(* C26: when the loaded page data lacks rootNodeId or nodes, or a        *)
(* childrenIds in it names an id that is not among its nodes, the store  *)
(* does not adopt it: after the load the store holds exactly one node,   *)
(* the root, without children.                                           *)
C26_CorruptLoadFallsBack ==
    [][(lastOp'.name = "loadPage" /\ Corrupt(lastOp'.args[1]))
       => /\ DOMAIN nodes' = {rootNodeId'}
          /\ nodes' # lastOp'.args[1].nodes
          /\ nodes'[rootNodeId'].parentId = NULL
          /\ nodes'[rootNodeId'].childrenIds = <<>>]_vars

\* what navigation may not touch: the stored ids and, of every node, its place
\* in the tree and on the canvas
Shape(ns) ==
    [i \in DOMAIN ns |->
        [parentId |-> ns[i].parentId, childrenIds |-> ns[i].childrenIds,
         level |-> ns[i].level, position |-> ns[i].position]]

(* C27: navigateToNode(cur, right) selects the first child of cur in     *)
(* childrenIds order when cur is visible, not collapsed and has          *)
(* children; navigateToNode(cur, left) selects the parent of cur when it *)
(* has one; without such a target (no visible child, no parent, or cur   *)
(* not stored) selectedNodeId and editingNodeId stay as they were. In    *)
(* every direction the tree structure, the positions and the history     *)
(* stay as they were.                                                    *)
C27_HorizontalNavigation ==
    [][lastOp'.name = "navigateToNode"
       => LET cur == lastOp'.args[1]
              direction == lastOp'.args[2]
              visibleNodes == getVisibleNodes(nodes, rootNodeId)
          IN /\ direction = "ArrowRight" =>
                    /\ (/\ cur \in Stored
                        /\ IsVisible(visibleNodes, cur)
                        /\ ~nodes[cur].isCollapsed
                        /\ nodes[cur].childrenIds # <<>>)
                       => selectedNodeId' = nodes[cur].childrenIds[1]
                    /\ (cur \in Stored =>
                           \A c \in Range(nodes[cur].childrenIds) :
                               ~IsVisible(visibleNodes, c))
                       => UNCHANGED <<selectedNodeId, editingNodeId>>
             /\ direction = "ArrowLeft" =>
                    IF cur \in Stored /\ nodes[cur].parentId # NULL
                    THEN selectedNodeId' = nodes[cur].parentId
                    ELSE UNCHANGED <<selectedNodeId, editingNodeId>>
             /\ Shape(nodes') = Shape(nodes)
             /\ UNCHANGED <<rootNodeId, history>>]_vars

\* ArrowRight on a node with two children has just selected the first of them
C27_Witness ==
    /\ lastOp.name = "navigateToNode"
    /\ lastOp.args[2] = "ArrowRight"
    /\ lastOp.args[1] \in Stored
    /\ Len(nodes[lastOp.args[1]].childrenIds) >= 2
    /\ selectedNodeId = nodes[lastOp.args[1]].childrenIds[1]
    /\ nodes[selectedNodeId].isSelected

\* the stored nodes of S whose vertical center lies strictly in the direction
\* from cur
Qualifying(S, cur, direction) ==
    {v \in S : InDirection(VerticalOffset(nodes, v, cur), direction)}

\* t is a node of S at the smallest vertical distance from cur
IsNearestOf(t, S, cur) ==
    /\ t \in S
    /\ \A v \in S : Abs(VerticalOffset(nodes, t, cur)) <= Abs(VerticalOffset(nodes, v, cur))

(* C28: navigateToNode(cur, up or down): if some visible sibling of cur  *)
(* has its vertical center strictly in the direction, the node selected  *)
(* is the sibling at the smallest vertical distance, even when a node    *)
(* that is not a sibling is nearer; otherwise it is the visible node     *)
(* anywhere at the smallest vertical distance strictly in the direction; *)
(* if no node qualifies the selection stays as it was.                   *)
C28_VerticalNavigation ==
    [][(/\ lastOp'.name = "navigateToNode"
        /\ lastOp'.args[2] \in {"ArrowUp", "ArrowDown"}
        /\ lastOp'.args[1] \in Stored)
       => LET cur == lastOp'.args[1]
              direction == lastOp'.args[2]
              visible == Range(getVisibleNodes(nodes, rootNodeId)) \ {cur}
              siblings == {v \in visible : /\ nodes[cur].parentId # NULL
                                           /\ nodes[v].parentId = nodes[cur].parentId}
              nearSiblings == Qualifying(siblings, cur, direction)
              nearNodes == Qualifying(visible, cur, direction)
          IN IF nearSiblings # {}
             THEN IsNearestOf(selectedNodeId', nearSiblings, cur)
             ELSE IF nearNodes # {}
             THEN IsNearestOf(selectedNodeId', nearNodes, cur)
             ELSE UNCHANGED selectedNodeId]_vars

\* a sibling below or above the current node has just been selected although
\* a visible node that is not a sibling is nearer in that direction
C28_Witness ==
    /\ lastOp.name = "navigateToNode"
    /\ lastOp.args[2] \in {"ArrowUp", "ArrowDown"}
    /\ lastOp.args[1] \in Stored
    /\ selectedNodeId \in Stored \ {lastOp.args[1]}
    /\ nodes[selectedNodeId].parentId = nodes[lastOp.args[1]].parentId
    /\ \E v \in Range(getVisibleNodes(nodes, rootNodeId)) :
           /\ nodes[v].parentId # nodes[lastOp.args[1]].parentId
           /\ InDirection(VerticalOffset(nodes, v, lastOp.args[1]), lastOp.args[2])
           /\ Abs(VerticalOffset(nodes, v, lastOp.args[1]))
                  < Abs(VerticalOffset(nodes, selectedNodeId, lastOp.args[1]))

\* text has the field f of node, and query occurs in it at some offset when
\* upper and lower case of a letter count as the same
ContainsIgnoringCase(node, f, query) ==
    /\ f \in DOMAIN node
    /\ \E k \in 0..(Len(node[f]) - Len(query)) :
           \A j \in 1..Len(query) : LowerChar(node[f][k + j]) = LowerChar(query[j])

(* C29: searchNodes(q) returns exactly the stored nodes whose title or   *)
(* details contains q as a substring when letter case is ignored on both *)
(* sides, none left out and none added, and does not change the store.   *)
C29_SearchExact ==
    [][lastOp'.name = "searchNodes"
       => /\ ret'.kind = "nodes"
          /\ ret'.value = {i \in Stored :
                              \/ ContainsIgnoringCase(nodes[i], "title", lastOp'.args[1])
                              \/ ContainsIgnoringCase(nodes[i], "details", lastOp'.args[1])}
          /\ UNCHANGED <<nodes, rootNodeId, selectedNodeId, editingNodeId, history>>]_vars

RECURSIVE BandHeight(_, _)
RECURSIVE SumBandHeights(_, _, _)
SumBandHeights(ns, children, k) ==
    IF k > Len(children) THEN 0
    ELSE BandHeight(ns, children[k]) + SumBandHeights(ns, children, k + 1)

\* the height of the band of node i in its parent's block as the claims read
\* it: the fixed node height for a node that shows no children, else its
\* children's bands with the vertical spacing between them
BandHeight(ns, i) ==
    IF ns[i].isCollapsed \/ ns[i].childrenIds = <<>> THEN NODE_HEIGHT
    ELSE Max(SumBandHeights(ns, ns[i].childrenIds, 1)
               + (Len(ns[i].childrenIds) - 1) * VERTICAL_SPACING,
             NODE_HEIGHT)

\* the top and the bottom of the band of node i, whose centre is the node's y
BandTop(ns, i) == ns[i].position.y - BandHeight(ns, i) \div 2
BandBottom(ns, i) == BandTop(ns, i) + BandHeight(ns, i)

\* the nodes whose children are visible: no collapsed proper ancestor, not
\* collapsed themselves, at least one child
ShowsChildren(ns) ==
    {i \in VisibleNodes(ns) : ~ns[i].isCollapsed /\ ns[i].childrenIds # <<>>}

(* C30: after layout, for every positioned node P with visible children  *)
(* c1..cn in childrenIds order: each child's x is P.x plus P's display   *)
(* width plus the horizontal spacing; the children's bands are stacked   *)
(* in that order with exactly the vertical spacing between consecutive   *)
(* bands, each child's y being the centre of its band; and P.y is the    *)
(* midpoint of the whole block of the children.                          *)
C30_ChildrenBlock ==
    lastOp.name = "layout"
       => \A P \in ShowsChildren(nodes) :
              LET c == nodes[P].childrenIds
                  n == Len(c)
              IN /\ \A k \in 1..n :
                        nodes[c[k]].position.x
                            = nodes[P].position.x + getNodeWidth(nodes[P])
                                + MIN_HORIZONTAL_SPACING * XScale
                 /\ \A k \in 1..(n - 1) :
                        BandTop(nodes, c[k + 1])
                            = BandBottom(nodes, c[k]) + VERTICAL_SPACING
                 /\ BandTop(nodes, c[1]) + BandBottom(nodes, c[n])
                        = 2 * nodes[P].position.y

(* C39: the context-menu action 'Add Sibling' on a node N that has a     *)
(* parent creates a node whose parentId is N.parentId, whatever the      *)
(* depth of N.                                                           *)
C39_AddSiblingParent ==
    [][\A N \in Stored :
          (/\ nodes[N].parentId # NULL
           /\ lastOp'.name = "createNode"
           /\ lastOp'.args = <<nodes[N].parentId, TRUE>>)
          => /\ ret'.kind = "id"
             /\ nodes'[ret'.value].parentId = nodes[N].parentId]_vars

(* C34: history does not cross a document load: once a page with root r  *)
(* has been loaded, no mutation, undo or redo makes rootNodeId differ    *)
(* from r or puts the tree held before the load (any tree with the      *)
(* root the store was constructed with) back in the store.               *)
C34_HistoryStopsAtLoad ==
    [][(/\ rootNodeId = PageRootId
        /\ lastOp'.name \in {"createNode", "undo", "redo"})
       => /\ rootNodeId' = PageRootId
          /\ rootNode.id \notin DOMAIN nodes']_vars

\* neither node is an ancestor of the other, by the parentId chain
Unrelated(ns, a, b) == ~isDescendant(ns, a, b) /\ ~isDescendant(ns, b, a)

(* C40: after layout, visible nodes never overlap vertically: any two    *)
(* distinct nodes with no collapsed proper ancestor (collapsed nodes     *)
(* themselves included) of which neither is an ancestor of the other     *)
(* have y positions at least NODE_HEIGHT + VERTICAL_SPACING apart.       *)
C40_NoVerticalOverlap ==
    lastOp.name = "layout"
       => \A a, b \in VisibleNodes(nodes) :
              (a # b /\ Unrelated(nodes, a, b))
              => Abs(nodes[a].position.y - nodes[b].position.y)
                     >= NODE_HEIGHT + VERTICAL_SPACING

\* the nodes without what a layout computes: ids, parentId, childrenIds,
\* titles and flags
Content(ns) ==
    [i \in DOMAIN ns |->
        [f \in DOMAIN ns[i] \ {"position", "level"} |-> ns[i][f]]]

(* C33: a mutation applied between a call of rebalanceLayout() and the   *)
(* firing of its deferred commit is not lost: the commit changes only    *)
(* positions and levels, so after it the store has the same node ids,    *)
(* parentId, childrenIds, titles and flags as immediately before it.     *)
C33_CommitKeepsMutations ==
    [][lastOp'.name = "layoutCommit" => Content(nodes') = Content(nodes)]_vars

(* C35: a deferred layout commit (armed by rebalanceLayout or by         *)
(* createNodeDuringEdit) that fires after an undo() does not discard     *)
(* redo history: a timer armed before the undo and firing right after it *)
(* leaves history.future as the undo left it.                            *)
C35_CommitKeepsFuture ==
    [][(/\ lastOp.name = "undo"
        /\ lastOp'.name = "layoutCommit"
        /\ lastOp'.args[2] < nops)
       => history'.future = history.future]_vars

(* C37: in every reachable state, also while deferred layout commits are *)
(* pending and after they fire, selectedNodeId and editingNodeId are     *)
(* each null or the id of a node in the store.                           *)
C37_SelectionStored ==
    /\ selectedNodeId \in Stored \cup {NULL}
    /\ editingNodeId \in Stored \cup {NULL}

\* the parent/child structure of a tree
Structure(ns) ==
    [i \in DOMAIN ns |-> [parentId |-> ns[i].parentId, childrenIds |-> ns[i].childrenIds]]

(* C38: a single drag-and-drop that reparents a node adds exactly one    *)
(* undo step: the deferred rebalance of the drop adds no step of its     *)
(* own, so that once it has fired one undo() goes back to the same       *)
(* parent/child structure as right after the drop, the one from before   *)
(* the drag.                                                             *)
C38_DragIsOneUndoStep ==
    [][(/\ lastOp.name = "handleNodeDragEnd"
        /\ lastOp.args[3]
        /\ lastOp'.name = "layoutCommit"
        /\ lastOp'.args[2] = nops)
       => /\ Len(history'.past) = Len(history.past)
          /\ Structure(Parse(Last(history'.past)).nodes)
                 = Structure(Parse(Last(history.past)).nodes)]_vars

(* C32: during a drag gesture each moveNode changes only the position of *)
(* the dragged node: no other node moves, nothing is laid out, no        *)
(* snapshot is taken. After the drop and its deferred rebalance commit   *)
(* the position of every visible node, the dragged one included, is the  *)
(* one the layout computes from the tree shape: it is the same whatever  *)
(* positions the nodes other than the root had before.                   *)
C32_DragThenLayout ==
    [][/\ lastOp'.name = "moveNode"
          => /\ history' = history
             /\ nodes' = [nodes EXCEPT ![lastOp'.args[1]].position = lastOp'.args[2]]
       /\ (/\ lastOp.name = "handleNodeDragEnd"
           /\ lastOp'.name = "layoutCommit"
           /\ lastOp'.args[2] = nops)
          => \A prior \in [DOMAIN nodes' \ {rootNodeId} -> PriorPositions] :
                 LET twin == calculateBalancedLayout(
                                 WithPriorPositions(nodes', prior), rootNodeId)
                 IN \A i \in VisibleNodes(nodes') :
                        twin[i].position = nodes'[i].position]_vars

\* what the editor page would save now
InMemory == [nodes |-> nodes, rootNodeId |-> rootNodeId]

(* C31: at most one auto-save waits in the debounce timer at any time:   *)
(* every change of (nodes, rootNodeId) cancels the waiting timer and     *)
(* arms a new one, so a burst of edits between two firings causes one    *)
(* write, which carries the state after the last edit of the burst and   *)
(* leaves no timer armed.                                                *)
C31_Debounce ==
    [][/\ Len(saveTimers') <= 1
       /\ (~loading' /\ InMemory' # InMemory) => saveTimers' = <<InMemory'>>
       /\ lastOp'.name = "saveData"
          => /\ Len(inFlight') = Len(inFlight) + 1
             /\ Last(inFlight') = InMemory
             /\ saveTimers' = <<>>]_vars

\* one write has been started since the page was loaded, after a burst of at
\* least two edits, and it carries the state after the last of them
C31_Witness ==
    /\ lastOp.name = "saveData"
    /\ nops >= 4
    /\ inFlight = <<InMemory>>
    /\ persisted = PageColumn(ValidPage)
    /\ saveTimers = <<>>

(* C36: if a second auto-save starts while an earlier one is in flight,  *)
(* then once both writes have completed the persisted tree of the page   *)
(* is the most recent in-memory (nodes, rootNodeId), whatever order the  *)
(* writes complete in.                                                   *)
C36_LastWriteWins ==
    (/\ lastOp.name = "updatePage"
     /\ inFlight = <<>>
     /\ saveTimers = <<>>)
    => persisted = InMemory

====
